---------------------------- MODULE Spec2Model ----------------------------
(***************************************************************************)
(* Model of openapi_llm_ready (src/main.py): the reference resolver        *)
(* resolve_ref, the recursive schema renderer format_schema, the endpoint  *)
(* renderer format_endpoint with its three section formatters, and the     *)
(* grouping / file-writing driver generate_category_docs.                  *)
(*                                                                         *)
(* JSON values are records [k, n, s, e]:                                   *)
(*   k  the Python type the value has after json.load                      *)
(*      ("null", "bool", "num", "str", "list", "dict"),                    *)
(*   n  the number of a num, 1/0 for a bool (True == 1 in Python),         *)
(*   s  the characters of a str, one one-character string per element,     *)
(*   e  the entries of a dict, <<key, value>> in insertion order, or the   *)
(*      elements of a list, <<NoKey, value>>.                              *)
(* A markdown string is the sequence of its lines; a line is a record      *)
(* [ind, tag, val, req]: the indentation level, the literal template of    *)
(* the f-string that produced it, the value interpolated into it and the   *)
(* "(required)" marker.                                                    *)
(***************************************************************************)
EXTENDS Integers, Sequences, FiniteSets, TLC

VARIABLES
    openapi_spec,   \* the parsed document (never assigned after Init)
    inline_refs,    \* the inline_refs flag threaded through every call
    stack,          \* call stack of format_schema, innermost call last
    visited,        \* the set object the top-level caller passed as seen_refs
    ret,            \* the string returned by the call that returned last
    status,         \* "running" | "returned" | "raised"
    exc,            \* the Python exception that ended the run, "" when none
    resolve_calls,  \* how often resolve_ref was called
    ref_path,       \* resolve_ref: its ref_path argument
    resolved,       \* resolve_ref: the value it returned
    ep,             \* format_endpoint: its arguments and loop positions
    markdown,       \* format_endpoint: the string built so far
    categories,     \* generate_category_docs: tag -> list of endpoint records
    files,          \* generate_category_docs: the output directory
    gen             \* generate_category_docs: position in its loops

vars == <<openapi_spec, inline_refs, stack, visited, ret, status, exc,
          resolve_calls, ref_path, resolved, ep, markdown, categories,
          files, gen>>

schemaVars == <<stack, visited, ret, status, exc, resolve_calls>>
resolveVars == <<ref_path, resolved>>
endpointVars == <<ep, markdown>>
categoryVars == <<categories, files, gen>>
nonSchemaVars == <<openapi_spec, inline_refs, ref_path, resolved, ep, markdown,
                   categories, files, gen>>

-----------------------------------------------------------------------------
(* JSON values as json.load builds them *)

NoKey == <<>>

None == [k |-> "null", n |-> 0, s |-> <<>>, e |-> <<>>]
Bool(b) == [k |-> "bool", n |-> IF b THEN 1 ELSE 0, s |-> <<>>, e |-> <<>>]
Num(i) == [k |-> "num", n |-> i, s |-> <<>>, e |-> <<>>]
Str(chars) == [k |-> "str", n |-> 0, s |-> chars, e |-> <<>>]
List(vals) == [k |-> "list", n |-> 0, s |-> <<>>,
               e |-> [i \in 1..Len(vals) |-> <<NoKey, vals[i]>>]]
Dict(entries) == [k |-> "dict", n |-> 0, s |-> <<>>, e |-> entries]

\* isinstance(v, dict)
IsDict(v) == v.k = "dict"

\* key in d, for a dict d
HasKey(d, key) == \E i \in 1..Len(d.e) : d.e[i][1] = key

\* d[key], for a dict d that has the key
Get(d, key) == d.e[CHOOSE i \in 1..Len(d.e) : d.e[i][1] = key][2]

\* Python's ==, which the in operator of a list and of a set uses: a bool is
\* the number 1 or 0, every other value equals only values of its own type.
PyEq(a, b) ==
    IF a.k \in {"bool", "num"} /\ b.k \in {"bool", "num"}
    THEN a.n = b.n
    ELSE a.k = b.k /\ a = b

\* bool(v): the truth value an if statement gives a value
Truthy(v) ==
    CASE v.k = "null" -> FALSE
      [] v.k \in {"bool", "num"} -> v.n # 0
      [] v.k = "str" -> v.s # <<>>
      [] OTHER -> v.e # <<>>

\* hash(v) succeeds: a list or a dict cannot be a member of a set
Hashable(v) == v.k \notin {"list", "dict"}

\* iter(v) succeeds
Iterable(v) == v.k \in {"str", "list", "dict"}

\* list(v): the values a for loop over v yields (the characters of a str, the
\* elements of a list, the keys of a dict)
Iterate(v) ==
    CASE v.k = "str" -> [i \in 1..Len(v.s) |-> Str(<<v.s[i]>>)]
      [] v.k = "list" -> [i \in 1..Len(v.e) |-> v.e[i][2]]
      [] v.k = "dict" -> [i \in 1..Len(v.e) |-> Str(v.e[i][1])]
      [] OTHER -> <<>>

\* sub in text for two strs: text holds sub as a contiguous run
Substring(sub, text) ==
    \E i \in 0..(Len(text) - Len(sub)) :
        \A j \in 1..Len(sub) : text[i + j] = sub[j]

\* x in c, for an iterable container c
Contains(c, x) ==
    CASE c.k = "str" -> x.k = "str" /\ Substring(x.s, c.s)
      [] c.k = "list" -> \E i \in 1..Len(c.e) : PyEq(c.e[i][2], x)
      [] c.k = "dict" -> x.k = "str" /\ HasKey(c, x.s)
      [] OTHER -> FALSE

-----------------------------------------------------------------------------
(* resolve_ref *)

\* ref_path.startswith("#/")
StartsWithHashSlash(chars) ==
    Len(chars) >= 2 /\ chars[1] = "#" /\ chars[2] = "/"

\* chars.split("/"): the runs between the slashes, empty runs included
RECURSIVE Split(_)
Split(chars) ==
    IF \A i \in 1..Len(chars) : chars[i] # "/"
    THEN <<chars>>
    ELSE LET i == CHOOSE i \in 1..Len(chars) :
                      chars[i] = "/" /\ \A j \in 1..(i - 1) : chars[j] # "/"
         IN <<SubSeq(chars, 1, i - 1)>> \o Split(SubSeq(chars, i + 1, Len(chars)))

\* a loop that gives back the value reached so far when a step fails
RECURSIVE WalkPartial(_, _, _)
WalkPartial(current, parts, from) ==
    IF from > Len(parts) THEN current
    ELSE IF current.k = "dict" /\ (\E i \in 1..Len(current.e) : current.e[i][1] = parts[from])
         THEN WalkPartial(current.e[CHOOSE i \in 1..Len(current.e) :
                                       current.e[i][1] = parts[from]][2],
                          parts, from + 1)
         ELSE current

\* the for loop of resolve_ref over parts[from..], current being the value
\* reached so far
RECURSIVE Walk(_, _, _)
Walk(current, parts, from) ==
    IF from > Len(parts) THEN current
    ELSE IF IsDict(current) /\ HasKey(current, parts[from])
         THEN Walk(Get(current, parts[from]), parts, from + 1)
         ELSE None

resolve_ref(path, spec) ==
    IF ~StartsWithHashSlash(path) THEN None
    ELSE Walk(spec, Split(SubSeq(path, 3, Len(path))), 1)

-----------------------------------------------------------------------------
(* The keys format_schema looks up, character by character *)

K_ref == <<"$", "r", "e", "f">>
K_type == <<"t", "y", "p", "e">>
K_description == <<"d", "e", "s", "c", "r", "i", "p", "t", "i", "o", "n">>
K_title == <<"t", "i", "t", "l", "e">>
K_enum == <<"e", "n", "u", "m">>
K_default == <<"d", "e", "f", "a", "u", "l", "t">>
K_format == <<"f", "o", "r", "m", "a", "t">>
K_properties == <<"p", "r", "o", "p", "e", "r", "t", "i", "e", "s">>
K_required == <<"r", "e", "q", "u", "i", "r", "e", "d">>
K_items == <<"i", "t", "e", "m", "s">>
K_allOf == <<"a", "l", "l", "O", "f">>
K_anyOf == <<"a", "n", "y", "O", "f">>
K_oneOf == <<"o", "n", "e", "O", "f">>
K_additionalProperties == <<"a", "d", "d", "i", "t", "i", "o", "n", "a", "l", "P", "r", "o", "p", "e", "r", "t", "i", "e", "s">>
K_example == <<"e", "x", "a", "m", "p", "l", "e">>
K_pattern == <<"p", "a", "t", "t", "e", "r", "n">>
K_minimum == <<"m", "i", "n", "i", "m", "u", "m">>
K_maximum == <<"m", "a", "x", "i", "m", "u", "m">>
K_minLength == <<"m", "i", "n", "L", "e", "n", "g", "t", "h">>
K_maxLength == <<"m", "a", "x", "L", "e", "n", "g", "t", "h">>
K_minItems == <<"m", "i", "n", "I", "t", "e", "m", "s">>
K_maxItems == <<"m", "a", "x", "I", "t", "e", "m", "s">>

\* the list the for loop of line 127 runs over
ComposeKeys == <<K_allOf, K_anyOf, K_oneOf>>

\* the list the for loop of line 152 runs over
ConstraintKeys == <<K_minimum, K_maximum, K_minLength, K_maxLength,
                    K_minItems, K_maxItems>>

\* the literal "object" of line 140
ObjectTypeName == Str(<<"o", "b", "j", "e", "c", "t">>)

-----------------------------------------------------------------------------
(* format_schema: markdown lines *)

Line(ind, tag, val, req) == [ind |-> ind, tag |-> tag, val |-> val, req |-> req]

\* f"{indent_str}- `{schema}`\n" (line 60)
ScalarLine(indent, schema) == Line(indent, "scalar", schema, FALSE)
\* f"{indent_str}- **$ref**: `{ref_path}`\n" (line 67)
RefLine(indent, path) == Line(indent, "$ref", path, FALSE)
\* f"{indent_str}  *(circular reference, see definition above)*\n" (line 71)
CircularLine(indent) == Line(indent + 1, "circular reference", None, FALSE)
\* f"{indent_str}  **Resolved Definition**:\n" (line 80)
ResolvedLine(indent) == Line(indent + 1, "Resolved Definition", None, FALSE)
\* f"{indent_str}  *(unable to resolve reference)*\n" (line 83)
UnableLine(indent) == Line(indent + 1, "unable to resolve", None, FALSE)
\* f"{indent_str}  - **`{prop_name}`**{required_marker}:\n" (line 118)
PropertyLine(indent, name, marker) == Line(indent + 1, "property", Str(name), marker)
\* f"{indent_str}  - Option {i + 1}:\n" (line 131)
OptionLine(indent, i) == Line(indent + 1, "Option", Num(i), FALSE)

\* one "- **Label**: value" line when the key is present, nothing otherwise
Facet(schema, indent, key, tag) ==
    IF HasKey(schema, key)
    THEN <<Line(indent, tag, Get(schema, key), FALSE)>>
    ELSE <<>>

\* lines 89-111 for a schema whose enum, if any, is iterable
HeadLines(schema, indent) ==
    Facet(schema, indent, K_type, "Type")
    \o Facet(schema, indent, K_description, "Description")
    \o Facet(schema, indent, K_title, "Title")
    \o (IF HasKey(schema, K_enum)
        THEN <<Line(indent, "Enum", List(Iterate(Get(schema, K_enum))), FALSE)>>
        ELSE <<>>)
    \o Facet(schema, indent, K_default, "Default")
    \o Facet(schema, indent, K_format, "Format")

\* schema.get("required", [])
RequiredOf(schema) ==
    IF HasKey(schema, K_required) THEN Get(schema, K_required) ELSE List(<<>>)

\* schema.get("type")
TypeOf(schema) == IF HasKey(schema, K_type) THEN Get(schema, K_type) ELSE None

\* a marker set for every property of a node that has a required key
required_marker_any(schema, prop_name) == HasKey(schema, K_required)

\* line 117: prop_name in schema.get("required", []), for an iterable required
required_marker(schema, prop_name) == Contains(RequiredOf(schema), Str(prop_name))

\* line 140: the flat Required line is rendered
FlatRequired(schema) ==
    HasKey(schema, K_required) /\ ~PyEq(TypeOf(schema), ObjectTypeName)

\* lines 140-154 for a schema whose required, if rendered, is iterable
TailLines(schema, indent) ==
    (IF FlatRequired(schema)
     THEN <<Line(indent, "Required", List(Iterate(Get(schema, K_required))), FALSE)>>
     ELSE <<>>)
    \o Facet(schema, indent, K_example, "Example")
    \o Facet(schema, indent, K_pattern, "Pattern")
    \o Facet(schema, indent, K_minimum, "minimum")
    \o Facet(schema, indent, K_maximum, "maximum")
    \o Facet(schema, indent, K_minLength, "minLength")
    \o Facet(schema, indent, K_maxLength, "maxLength")
    \o Facet(schema, indent, K_minItems, "minItems")
    \o Facet(schema, indent, K_maxItems, "maxItems")

\* line 135: schema["additionalProperties"] not in [True, False]
NotInTrueFalse(v) == ~Contains(List(<<Bool(TRUE), Bool(FALSE)>>), v)

-----------------------------------------------------------------------------
(* format_schema: the call stack *)

\* ref_path in seen_refs (line 70), for a hashable ref_path
InSeen(path, seen_refs) == \E x \in seen_refs : PyEq(x, path)

\* seen_refs.add(ref_path) (line 74)
SeenAdd(seen_refs, path) ==
    IF InSeen(path, seen_refs) THEN seen_refs ELSE seen_refs \cup {path}

\* a recursive call that passes a fresh set instead of the copy
SeenCopyFresh(seen_refs) == {}

\* a recursive call that passes one set shared by the whole run: it holds
\* every reference path rendered so far, by sibling branches too
SeenCopyShared(seen_refs) ==
    seen_refs \cup UNION {{stack[i].result[l].val :
                               l \in {l \in 1..Len(stack[i].result) :
                                          stack[i].result[l].tag = "$ref"}} :
                           i \in 1..Len(stack)}

\* seen_refs.copy(): the argument of every recursive call
SeenCopy(seen_refs) == seen_refs

\* a call format_schema(schema, openapi_spec, indent, seen_refs, inline_refs)
\* about to run its first statement
Call(schema, indent, seen_refs) ==
    [schema |-> schema, indent |-> indent, seen_refs |-> seen_refs,
     pc |-> "start", i |-> 0, j |-> 1, result |-> <<>>]

Top == stack[Len(stack)]
Callers == SubSeq(stack, 1, Len(stack) - 1)

Running == status = "running" /\ stack # <<>>

\* the innermost call goes on at pc with its result extended by lines
Continue(f, pc, lines) ==
    [f EXCEPT !.pc = pc, !.i = 0, !.result = f.result \o lines]

\* the innermost call, changed to f, calls format_schema recursively
Recurse(f, schema, indent) ==
    stack' = Callers \o <<f, Call(schema, indent, SeenCopy(f.seen_refs))>>

\* the innermost call returns res: its caller appends it to its own result
\* (result += format_schema(...)), the top-level caller receives it
Return(res) ==
    /\ ret' = res
    /\ IF Len(stack) = 1
       THEN /\ stack' = <<>>
            /\ status' = "returned"
       ELSE /\ stack' = [Callers EXCEPT ![Len(stack) - 1].result = @ \o res]
            /\ status' = status
    /\ exc' = exc

\* the innermost call raises: no caller catches, the run ends
Raise(e) ==
    /\ stack' = <<>>
    /\ status' = "raised"
    /\ exc' = e
    /\ ret' = ret

-----------------------------------------------------------------------------
(* format_schema: one action per block of the function *)

\* the test of line 77 replaced by one that always inlines
InliningAlways == TRUE

\* line 77: if inline_refs
Inlining == inline_refs

\* lines 59-60: a node that is not a dict is one literal bullet
Scalar ==
    /\ Running
    /\ UNCHANGED nonSchemaVars
    /\ Top.pc = "start"
    /\ ~IsDict(Top.schema)
    /\ Return(<<ScalarLine(Top.indent, Top.schema)>>)
    /\ UNCHANGED <<visited, resolve_calls>>

\* lines 63-83: a $ref node, up to the recursive call of line 81
Ref ==
    /\ Running
    /\ UNCHANGED nonSchemaVars
    /\ Top.pc = "start"
    /\ IsDict(Top.schema)
    /\ HasKey(Top.schema, K_ref)
    /\ LET path == Get(Top.schema, K_ref)
           indent == Top.indent
           line == RefLine(indent, path)
           seen == SeenAdd(Top.seen_refs, path)
           \* the set of the outermost call is the caller's own object
           added == IF Len(stack) = 1 THEN seen ELSE visited
       IN  IF ~Hashable(path)
           THEN \* line 70: TypeError, unhashable type
                /\ Raise("TypeError")
                /\ UNCHANGED <<visited, resolve_calls>>
           ELSE IF InSeen(path, Top.seen_refs)
           THEN \* lines 70-72
                /\ Return(<<line, CircularLine(indent)>>)
                /\ UNCHANGED <<visited, resolve_calls>>
           ELSE IF ~Inlining
           THEN \* lines 74, 77, 85
                /\ Return(<<line>>)
                /\ visited' = added
                /\ UNCHANGED resolve_calls
           ELSE IF path.k # "str"
           THEN \* line 25: AttributeError, no startswith
                /\ Raise("AttributeError")
                /\ visited' = added
                /\ resolve_calls' = resolve_calls + 1
           ELSE LET res == resolve_ref(path.s, openapi_spec)
                IN  /\ visited' = added
                    /\ resolve_calls' = resolve_calls + 1
                    /\ IF Truthy(res)
                       THEN \* lines 79-81
                            /\ Recurse([Top EXCEPT
                                          !.seen_refs = seen,
                                          !.pc = "ref_return",
                                          !.result = <<line, ResolvedLine(indent)>>],
                                       res, indent + 1)
                            /\ UNCHANGED <<ret, status, exc>>
                       ELSE \* lines 82-83, 85
                            Return(<<line, UnableLine(indent)>>)

\* line 85, after the recursive call of line 81 has returned
RefReturn ==
    /\ Running
    /\ UNCHANGED nonSchemaVars
    /\ Top.pc = "ref_return"
    /\ Return(Top.result)
    /\ UNCHANGED <<visited, resolve_calls>>

\* lines 87-111: type, description, title, enum, default, format
HeadFacets ==
    /\ Running
    /\ UNCHANGED nonSchemaVars
    /\ Top.pc = "start"
    /\ IsDict(Top.schema)
    /\ ~HasKey(Top.schema, K_ref)
    /\ IF HasKey(Top.schema, K_enum) /\ ~Iterable(Get(Top.schema, K_enum))
       THEN \* line 103: TypeError, not iterable
            Raise("TypeError")
       ELSE /\ stack' = Callers \o
                  <<Continue(Top, "properties", HeadLines(Top.schema, Top.indent))>>
            /\ UNCHANGED <<ret, status, exc>>
    /\ UNCHANGED <<visited, resolve_calls>>

\* lines 114-119: the Properties header, then one property per step
Properties ==
    /\ Running
    /\ UNCHANGED nonSchemaVars
    /\ Top.pc = "properties"
    /\ LET schema == Top.schema
           indent == Top.indent
           props == Get(schema, K_properties)
       IN  IF ~HasKey(schema, K_properties)
           THEN /\ stack' = Callers \o <<Continue(Top, "items", <<>>)>>
                /\ UNCHANGED <<ret, status, exc>>
           ELSE IF ~IsDict(props)
           THEN \* line 116: AttributeError, no items
                Raise("AttributeError")
           ELSE IF Top.i = 0
           THEN /\ stack' = Callers \o
                      <<[Top EXCEPT !.i = 1,
                                    !.result = @ \o <<Line(indent, "Properties", None, FALSE)>>]>>
                /\ UNCHANGED <<ret, status, exc>>
           ELSE IF Top.i > Len(props.e)
           THEN /\ stack' = Callers \o <<Continue(Top, "items", <<>>)>>
                /\ UNCHANGED <<ret, status, exc>>
           ELSE IF ~Iterable(RequiredOf(schema))
           THEN \* line 117: TypeError, not iterable
                Raise("TypeError")
           ELSE LET prop_name == props.e[Top.i][1]
                    prop_schema == props.e[Top.i][2]
                    marker == required_marker(schema, prop_name)
                IN  /\ Recurse([Top EXCEPT
                                  !.i = @ + 1,
                                  !.result = @ \o <<PropertyLine(indent, prop_name, marker)>>],
                               prop_schema, indent + 2)
                    /\ UNCHANGED <<ret, status, exc>>
    /\ UNCHANGED <<visited, resolve_calls>>

\* lines 122-124
Items ==
    /\ Running
    /\ UNCHANGED nonSchemaVars
    /\ Top.pc = "items"
    /\ IF HasKey(Top.schema, K_items)
       THEN Recurse(Continue(Top, "compose", <<Line(Top.indent, "Items", None, FALSE)>>),
                    Get(Top.schema, K_items), Top.indent + 1)
       ELSE stack' = Callers \o <<Continue(Top, "compose", <<>>)>>
    /\ UNCHANGED <<ret, status, exc, visited, resolve_calls>>

\* lines 127-132: for each of allOf, anyOf, oneOf its header, then one option
\* per step
Compose ==
    /\ Running
    /\ UNCHANGED nonSchemaVars
    /\ Top.pc = "compose"
    /\ LET schema == Top.schema
           indent == Top.indent
           key == ComposeKeys[Top.j]
           options == Iterate(Get(schema, key))
           nextKey == IF Top.j < Len(ComposeKeys)
                      THEN [Top EXCEPT !.j = @ + 1, !.i = 0]
                      ELSE Continue(Top, "additional", <<>>)
       IN  IF ~HasKey(schema, key)
           THEN /\ stack' = Callers \o <<nextKey>>
                /\ UNCHANGED <<ret, status, exc>>
           ELSE IF ~Iterable(Get(schema, key))
           THEN \* line 130: TypeError, not iterable
                Raise("TypeError")
           ELSE IF Top.i = 0
           THEN /\ stack' = Callers \o
                      <<[Top EXCEPT !.i = 1,
                                    !.result = @ \o <<Line(indent, "compose", Str(key), FALSE)>>]>>
                /\ UNCHANGED <<ret, status, exc>>
           ELSE IF Top.i > Len(options)
           THEN /\ stack' = Callers \o <<nextKey>>
                /\ UNCHANGED <<ret, status, exc>>
           ELSE /\ Recurse([Top EXCEPT
                              !.i = @ + 1,
                              !.result = @ \o <<OptionLine(indent, Top.i)>>],
                           options[Top.i], indent + 2)
                /\ UNCHANGED <<ret, status, exc>>
    /\ UNCHANGED <<visited, resolve_calls>>

\* lines 134-137
AdditionalProperties ==
    /\ Running
    /\ UNCHANGED nonSchemaVars
    /\ Top.pc = "additional"
    /\ IF /\ HasKey(Top.schema, K_additionalProperties)
          /\ NotInTrueFalse(Get(Top.schema, K_additionalProperties))
       THEN Recurse(Continue(Top, "tail",
                             <<Line(Top.indent, "Additional Properties", None, FALSE)>>),
                    Get(Top.schema, K_additionalProperties), Top.indent + 1)
       ELSE stack' = Callers \o <<Continue(Top, "tail", <<>>)>>
    /\ UNCHANGED <<ret, status, exc, visited, resolve_calls>>

\* lines 139-156: required, example, pattern, the bounds, return result
TailFacets ==
    /\ Running
    /\ UNCHANGED nonSchemaVars
    /\ Top.pc = "tail"
    /\ IF FlatRequired(Top.schema) /\ ~Iterable(Get(Top.schema, K_required))
       THEN \* line 141: TypeError, not iterable
            Raise("TypeError")
       ELSE Return(Top.result \o TailLines(Top.schema, Top.indent))
    /\ UNCHANGED <<visited, resolve_calls>>

-----------------------------------------------------------------------------
(* Inputs of the schema renderer: documents {"s": {"A": .., "B": ..}, "r": ..} *)
(* and the call format_schema(document["r"], document, 0, set(), inline_refs)  *)

K_s == <<"s">>
K_r == <<"r">>
K_A == <<"A">>
K_B == <<"B">>
K_p == <<"p">>
K_q == <<"q">>

\* "#/s/<name>"
PathTo(name) == <<"#", "/">> \o K_s \o <<"/">> \o name

PathA == PathTo(K_A)
PathB == PathTo(K_B)
\* no schema of that name
PathMissing == PathTo(<<"Z">>)
\* a reference into another file
PathExternal == <<"o", ".", "j", "s", "o", "n", "#", "/", "s", "/", "A">>

RefTo(chars) == Dict(<< <<K_ref, Str(chars)>> >>)

StringType == Dict(<< <<K_type, Str(<<"s", "t", "r", "i", "n", "g">>)>> >>)
ArrayTypeName == Str(<<"a", "r", "r", "a", "y">>)

RequiredLists == {<<>>, <<Str(K_p)>>, <<Str(K_q)>>}

\* {"type": "object", "properties": {"p": {"$ref": path}, "q": {"type": "string"}},
\*  "required": [...]}, the required key left out for an empty list
ObjectSchema(path, required) ==
    Dict(<< <<K_type, ObjectTypeName>>,
            <<K_properties, Dict(<< <<K_p, RefTo(path)>>, <<K_q, StringType>> >>)>> >>
         \o (IF required = <<>> THEN <<>> ELSE << <<K_required, List(required)>> >>))

\* {"type": "array", "items": {"$ref": path}}
ArraySchema(path) ==
    Dict(<< <<K_type, ArrayTypeName>>, <<K_items, RefTo(path)>> >>)

\* {"allOf": [{"$ref": path}, {"$ref": path}]}
AllOfSchema(path) ==
    Dict(<< <<K_allOf, List(<<RefTo(path), RefTo(path)>>)>> >>)

\* {"properties": {"p": {"$ref": path}, "q": {"$ref": path}}}
SiblingSchema(path) ==
    Dict(<< <<K_properties, Dict(<< <<K_p, RefTo(path)>>, <<K_q, RefTo(path)>> >>)>> >>)

\* a primitive node with every flat facet, required included
FacetSchema ==
    Dict(<< <<K_type, Str(<<"s", "t", "r", "i", "n", "g">>)>>,
            <<K_description, Str(<<"d">>)>>,
            <<K_title, Str(<<"t">>)>>,
            <<K_enum, List(<<Str(<<"a">>), Num(1)>>)>>,
            <<K_default, Str(<<"a">>)>>,
            <<K_format, Str(<<"f">>)>>,
            <<K_required, List(<<Str(K_p)>>)>>,
            <<K_example, Str(<<"a">>)>>,
            <<K_pattern, Str(<<"a">>)>>,
            <<K_minimum, Num(0)>>,
            <<K_maxLength, Num(3)>> >>)

\* {"properties": {"p": ..}, "anyOf": [{"required": ["p"]}], "oneOf": "pq"}
CompositionSchema ==
    Dict(<< <<K_properties, Dict(<< <<K_p, StringType>> >>)>>,
            <<K_anyOf, List(<<Dict(<< <<K_required, List(<<Str(K_p)>>)>> >>)>>)>>,
            <<K_oneOf, Str(K_p \o K_q)>> >>)

\* {"additionalProperties": v}
AdditionalSchema(v) == Dict(<< <<K_additionalProperties, v>> >>)

\* nodes json.load accepts and the OpenAPI schema object forbids
MalformedSchemas ==
    { Dict(<< <<K_ref, Num(5)>> >>),
      Dict(<< <<K_ref, List(<<Str(PathA)>>)>> >>),
      Dict(<< <<K_properties, Num(5)>> >>),
      Dict(<< <<K_properties, Dict(<< <<K_p, StringType>> >>)>>, <<K_required, Num(5)>> >>),
      Dict(<< <<K_properties, Dict(<< <<K_p, StringType>> >>)>>,
              <<K_required, Str(K_p \o K_q)>> >>),
      Dict(<< <<K_enum, Num(5)>> >>),
      Dict(<< <<K_allOf, Num(5)>> >>),
      Dict(<< <<K_required, Bool(TRUE)>> >>) }

\* the schemas stored under "A" and "B"
ComponentSchemas ==
    {RefTo(path) : path \in {PathA, PathB, PathMissing, PathExternal}}
    \cup {Dict(<<>>), Num(0), None, Str(<<"x">>)}
    \cup {ObjectSchema(path, required) : path \in {PathA, PathB}, required \in RequiredLists}
    \cup {ArraySchema(path) : path \in {PathA, PathB}}
    \cup {AllOfSchema(path) : path \in {PathA, PathB}}

\* the schema node the top-level call renders
RootSchemas ==
    {RefTo(PathA), RefTo(PathMissing), SiblingSchema(PathA),
     ObjectSchema(PathB, <<Str(K_q)>>),
     FacetSchema, CompositionSchema, Str(<<"x">>)}
    \cup {AdditionalSchema(v) : v \in {RefTo(PathA), Bool(TRUE), Num(1), Num(2), None}}
    \cup MalformedSchemas

Document(a, b, root) ==
    Dict(<< <<K_s, Dict(<< <<K_A, a>>, <<K_B, b>> >>)>>, <<K_r, root>> >>)

Documents ==
    {Document(a, b, root) : a \in ComponentSchemas, b \in ComponentSchemas,
                            root \in RootSchemas}

-----------------------------------------------------------------------------
(* Variables a specification does not use keep these values *)

IdleSchema ==
    /\ stack = <<>>
    /\ visited = {}
    /\ ret = <<>>
    /\ status = "idle"
    /\ exc = ""
    /\ resolve_calls = 0

IdleResolve ==
    /\ ref_path = <<>>
    /\ resolved = None

IdleEndpoint ==
    /\ ep = [pc |-> "idle", i |-> 0, j |-> 0, wait |-> FALSE, path |-> <<>>,
             method |-> <<>>, endpoint_data |-> None]
    /\ markdown = <<>>

IdleCategory ==
    /\ categories = <<>>
    /\ files = <<>>
    /\ gen = [pc |-> "idle", chunk_by_category |-> TRUE, i |-> 0, k |-> 0]

-----------------------------------------------------------------------------
(* Spec: format_schema(document["r"], document, 0, set(), inline_refs) *)

Init ==
    /\ openapi_spec \in Documents
    /\ inline_refs \in BOOLEAN
    /\ visited = {}
    /\ stack = <<Call(Get(openapi_spec, K_r), 0, visited)>>
    /\ ret = <<>>
    /\ status = "running"
    /\ exc = ""
    /\ resolve_calls = 0
    /\ IdleResolve
    /\ IdleEndpoint
    /\ IdleCategory

Next ==
    \/ Scalar
    \/ Ref
    \/ RefReturn
    \/ HeadFacets
    \/ Properties
    \/ Items
    \/ Compose
    \/ AdditionalProperties
    \/ TailFacets

Spec == Init /\ [][Next]_vars

\* format_schema is one synchronous call: a step that can be taken is taken
FairSpec == Spec /\ WF_vars(Next)

-----------------------------------------------------------------------------
(* What the claims speak about *)

\* the innermost call is about to render a $ref node
AtRefNode ==
    /\ Running
    /\ Top.pc = "start"
    /\ IsDict(Top.schema)
    /\ HasKey(Top.schema, K_ref)

\* the reference path of the $ref node of call f
RefPathOf(f) == Get(f.schema, K_ref)

\* the innermost call is about to render a $ref node whose value is a string
AtRefPath == AtRefNode /\ RefPathOf(Top).k = "str"

\* the calls of the current branch that expanded a $ref and wait for line 81
Expansions == {i \in 1..Len(stack) : stack[i].pc = "ref_return"}

\* the $ref the innermost call is about to render re-enters a reference that
\* an enclosing call of the branch is expanding
ReEntry == \E i \in Expansions : RefPathOf(stack[i]) = RefPathOf(Top)

\* the innermost call returns res in this step without having called anything
ReturnsAtOnce(res) ==
    /\ ret' = res
    /\ status' # "raised"
    /\ Len(stack') = Len(stack) - 1
    /\ \A i \in 1..(Len(stack) - 2) : stack'[i] = stack[i]
    /\ Len(stack) > 1 =>
           stack'[Len(stack) - 1] =
               [stack[Len(stack) - 1] EXCEPT !.result = @ \o res]

-----------------------------------------------------------------------------
(* C1: in inline mode a $ref node whose reference path is in the visited    *)
(* set of its branch, or that re-enters a reference an enclosing call of    *)
(* the branch is expanding (A -> A, A -> B -> A), returns the $ref line     *)
(* followed by exactly one circular-reference marker line, without calling  *)
(* resolve_ref or format_schema; no branch expands the same reference path  *)
(* twice.                                                                   *)

C1_Circular ==
    (inline_refs /\ AtRefPath /\ (RefPathOf(Top) \in Top.seen_refs \/ ReEntry))
    => /\ ReturnsAtOnce(<<RefLine(Top.indent, RefPathOf(Top)), CircularLine(Top.indent)>>)
       /\ resolve_calls' = resolve_calls

C1_NoSecondExpansion ==
    \A i, j \in Expansions : RefPathOf(stack[i]) = RefPathOf(stack[j]) => i = j

C1_CircularMarkerOnce == [][C1_Circular]_vars /\ []C1_NoSecondExpansion

\* the cycle A -> B -> A was re-entered: the marker has just been returned to
\* the call expanding B inside the call expanding A
C1_Witness ==
    /\ inline_refs
    /\ status = "running"
    /\ Len(ret) = 2
    /\ ret[2].tag = "circular reference"
    /\ ret[1] = RefLine(ret[1].ind, Str(PathA))
    /\ \E i, j \in Expansions :
           /\ i < j
           /\ RefPathOf(stack[i]) = Str(PathA)
           /\ RefPathOf(stack[j]) = Str(PathB)

-----------------------------------------------------------------------------
(* C2: whatever the document (reference cycles included) and in both modes, *)
(* the call started with an empty visited set ends, and on every branch the *)
(* number of $ref expansions in progress is at most the number of distinct  *)
(* reference paths that occur in the document.                              *)

\* the values of the "$ref" keys that occur anywhere in value v
RECURSIVE RefPathsIn(_)
RefPathsIn(v) ==
    IF v.k \notin {"dict", "list"} THEN {}
    ELSE (IF v.k = "dict" /\ HasKey(v, K_ref) THEN {Get(v, K_ref)} ELSE {})
         \cup UNION {RefPathsIn(v.e[i][2]) : i \in 1..Len(v.e)}

C2_BranchBound ==
    Cardinality(Expansions) <= Cardinality(RefPathsIn(openapi_spec))

C2_Terminates == <>(status # "running") /\ []C2_BranchBound

\* A -> B -> A: both reference paths of the document are being expanded
C2_Witness ==
    /\ inline_refs
    /\ status = "running"
    /\ Cardinality(Expansions) = 2
    /\ RefPathsIn(openapi_spec) = {Str(PathA), Str(PathB)}
    /\ AtRefPath
    /\ ReEntry

-----------------------------------------------------------------------------
(* C3: with inline_refs disabled and an empty visited set at the start,     *)
(* every $ref node returns exactly its reference-path line: no resolved     *)
(* definition, no unable-to-resolve marker and no circular marker appears   *)
(* anywhere, whether or not the reference resolves and however often the    *)
(* path occurs, and resolve_ref is never called.                            *)

MarkerTags == {"circular reference", "Resolved Definition", "unable to resolve"}

\* no line of the string is a marker or a resolved-definition header
NoMarker(lines) == \A i \in 1..Len(lines) : lines[i].tag \notin MarkerTags

C3_RefLineOnly ==
    (~inline_refs /\ AtRefPath)
    => /\ ReturnsAtOnce(<<RefLine(Top.indent, RefPathOf(Top))>>)
       /\ resolve_calls' = resolve_calls

C3_NoResolution ==
    ~inline_refs =>
        /\ resolve_calls = 0
        /\ NoMarker(ret)
        /\ \A i \in 1..Len(stack) : NoMarker(stack[i].result)

C3_ReferenceOnly == [][C3_RefLineOnly]_vars /\ []C3_NoResolution

\* the same reference path rendered twice by sibling properties: the call
\* has returned the Properties header, two bullets and two $ref lines
C3_Witness ==
    /\ ~inline_refs
    /\ status = "returned"
    /\ Len(ret) = 5
    /\ ret[3] = RefLine(2, Str(PathA))
    /\ ret[5] = RefLine(2, Str(PathA))

-----------------------------------------------------------------------------
(* C4: in inline mode, for a $ref node whose path is not in the visited set, *)
(* the unable-to-resolve marker is returned if and only if resolve_ref       *)
(* returns None; for every other resolved value, falsy ones included, the    *)
(* call emits the resolved-definition header and calls format_schema on the  *)
(* resolved value one indent level deeper with the visited set extended by   *)
(* the path.                                                                 *)

C4_Resolution ==
    (inline_refs /\ AtRefPath /\ RefPathOf(Top) \notin Top.seen_refs)
    => LET path == RefPathOf(Top)
           res == resolve_ref(path.s, openapi_spec)
           seen == Top.seen_refs \cup {path}
       IN  IF res = None
           THEN ReturnsAtOnce(<<RefLine(Top.indent, path), UnableLine(Top.indent)>>)
           ELSE /\ status' = "running"
                /\ Len(stack') = Len(stack) + 1
                /\ stack'[Len(stack)].result =
                       <<RefLine(Top.indent, path), ResolvedLine(Top.indent)>>
                /\ stack'[Len(stack) + 1] = Call(res, Top.indent + 1, seen)

C4_UnableIffNotFound == [][C4_Resolution]_vars

-----------------------------------------------------------------------------
(* C6: a property bullet carries the "(required)" marker if and only if the  *)
(* property's name is an element of the required list of the node whose      *)
(* properties are being rendered; a node without a required key marks none.  *)

\* the innermost call is about to render the bullet of its i-th property
AtProperty ==
    /\ Running
    /\ Top.pc = "properties"
    /\ HasKey(Top.schema, K_properties)
    /\ IsDict(Get(Top.schema, K_properties))
    /\ Top.i \in 1..Len(Get(Top.schema, K_properties).e)

\* the node has no required key or its required is a list
RequiredIsList(schema) ==
    HasKey(schema, K_required) => Get(schema, K_required).k = "list"

\* the strings in the node's own required list
OwnRequired(schema) ==
    IF HasKey(schema, K_required)
    THEN {Get(schema, K_required).e[i][2] : i \in 1..Len(Get(schema, K_required).e)}
    ELSE {}

C6_Marker ==
    (AtProperty /\ RequiredIsList(Top.schema))
    => LET name == Get(Top.schema, K_properties).e[Top.i][1]
       IN  /\ Len(stack') = Len(stack) + 1
           /\ stack'[Len(stack)].result =
                  Top.result \o
                  <<PropertyLine(Top.indent, name, Str(name) \in OwnRequired(Top.schema))>>

C6_RequiredOwnListOnly == [][C6_Marker]_vars

\* a node that requires "p" renders its property "p" as required; the schema
\* that property refers to has a property "p" of its own, absent from its
\* own required list, whose bullet has no marker
C6_Witness ==
    \E i, j \in 1..Len(stack) :
        /\ i < j
        /\ stack[i].pc = "properties"
        /\ stack[j].pc = "properties"
        /\ Str(K_p) \in OwnRequired(stack[i].schema)
        /\ stack[i].result[Len(stack[i].result)] =
               PropertyLine(stack[i].indent, K_p, TRUE)
        /\ HasKey(stack[j].schema, K_required)
        /\ Str(K_p) \notin OwnRequired(stack[j].schema)
        /\ stack[j].result # <<>>
        /\ stack[j].result[Len(stack[j].result)] =
               PropertyLine(stack[j].indent, K_p, FALSE)

-----------------------------------------------------------------------------
(* C8: format_schema never ends by raising, whatever dicts, lists and        *)
(* scalars its input is built from.                                          *)

C8_NeverRaises == status # "raised"

-----------------------------------------------------------------------------
(* SpecResolve: one call resolve_ref(ref_path, openapi_spec) *)

\* the longest key sequence a generated path is joined from
MaxKeys == 3

\* keys without a slash, the empty key included
PathKeys == {<<>>, <<"a">>, <<"b">>, <<"a", "b">>}

KeySeqs == UNION {[1..n -> PathKeys] : n \in 1..MaxKeys}

\* "/".join(ks)
RECURSIVE Join(_)
Join(ks) ==
    IF Len(ks) = 1 THEN ks[1]
    ELSE ks[1] \o <<"/">> \o Join(SubSeq(ks, 2, Len(ks)))

HashSlash == <<"#", "/">>

\* what a path starts with: "#/", nothing, "#", "/", "a/", "a#/"
PathPrefixes ==
    {HashSlash, <<>>, <<"#">>, <<"/">>, <<"a", "/">>, <<"a", "#", "/">>}

ResolvePaths == {prefix \o Join(ks) : prefix \in PathPrefixes, ks \in KeySeqs}

\* {"a": {"b": 1, "": {"a": "x"}, "a": {"a": 2, "b": null}},
\*  "b": [{"a": 1}], "": "s", "ab": {"ab": {}}}
ResolveDocument1 ==
    Dict(<< <<<<"a">>, Dict(<< <<<<"b">>, Num(1)>>,
                               <<<<>>, Dict(<< <<<<"a">>, Str(<<"x">>)>> >>)>>,
                               <<<<"a">>, Dict(<< <<<<"a">>, Num(2)>>,
                                                  <<<<"b">>, None>> >>)>> >>)>>,
            <<<<"b">>, List(<<Dict(<< <<<<"a">>, Num(1)>> >>)>>)>>,
            <<<<>>, Str(<<"s">>)>>,
            <<<<"a", "b">>, Dict(<< <<<<"a", "b">>, Dict(<<>>)>> >>)>> >>)

\* {"a/b": 1, "a": {"b": 2, "a": "ab"}, "b": 0, "#": {"a": 3}}
ResolveDocument2 ==
    Dict(<< <<<<"a", "/", "b">>, Num(1)>>,
            <<<<"a">>, Dict(<< <<<<"b">>, Num(2)>>, <<<<"a">>, Str(<<"a", "b">>)>> >>)>>,
            <<<<"b">>, Num(0)>>,
            <<<<"#">>, Dict(<< <<<<"a">>, Num(3)>> >>)>> >>)

ResolveDocuments == {ResolveDocument1, ResolveDocument2, Dict(<<>>)}

InitResolve ==
    /\ openapi_spec \in ResolveDocuments
    /\ ref_path \in ResolvePaths
    /\ resolved = None
    /\ status = "calling"
    /\ inline_refs = TRUE
    /\ stack = <<>>
    /\ visited = {}
    /\ ret = <<>>
    /\ exc = ""
    /\ resolve_calls = 0
    /\ IdleEndpoint
    /\ IdleCategory

\* lines 25-37
ResolveRef ==
    /\ status = "calling"
    /\ resolved' = resolve_ref(ref_path, openapi_spec)
    /\ status' = "returned"
    /\ resolve_calls' = resolve_calls + 1
    /\ UNCHANGED <<openapi_spec, inline_refs, stack, visited, ret, exc, ref_path,
                   endpointVars, categoryVars>>

NextResolve == ResolveRef

SpecResolve == InitResolve /\ [][NextResolve]_vars

-----------------------------------------------------------------------------
(* C5: resolve_ref returns the value found by indexing k1..kn in order from *)
(* the document root exactly when the path is "#/k1/.../kn" and every step  *)
(* meets a dict that has the next key; otherwise (no "#/" at the start, a   *)
(* missing key, a list or a scalar on the way) it returns None, never the   *)
(* value reached so far; the document is left as it was.                    *)

\* every key of ks, from the from-th on, is found in turn starting at value v
RECURSIVE Walkable(_, _, _)
Walkable(v, ks, from) ==
    \/ from > Len(ks)
    \/ /\ v.k = "dict"
       /\ \E i \in 1..Len(v.e) :
              v.e[i][1] = ks[from] /\ Walkable(v.e[i][2], ks, from + 1)

\* v[k_from]...[k_n], for a walkable ks
RECURSIVE Indexed(_, _, _)
Indexed(v, ks, from) ==
    IF from > Len(ks) THEN v
    ELSE Indexed(v.e[CHOOSE i \in 1..Len(v.e) : v.e[i][1] = ks[from]][2], ks, from + 1)

C5_Result ==
    status = "returned" =>
        /\ \A ks \in KeySeqs :
               ref_path = HashSlash \o Join(ks) =>
                   resolved = IF Walkable(openapi_spec, ks, 1)
                              THEN Indexed(openapi_spec, ks, 1)
                              ELSE None
        /\ (Len(ref_path) < 2 \/ SubSeq(ref_path, 1, 2) # HashSlash) => resolved = None

C5_DocumentKept == openapi_spec' = openapi_spec

C5_ResolveExact == []C5_Result /\ [][C5_DocumentKept]_vars

\* "#/a//a" walked through the empty key to the string "x"
C5_Witness ==
    /\ status = "returned"
    /\ ref_path = <<"#", "/", "a", "/", "/", "a">>
    /\ openapi_spec = ResolveDocument1
    /\ resolved = Str(<<"x">>)

-----------------------------------------------------------------------------
(* format_endpoint and its section formatters: keys and lines *)

K_summary == <<"s", "u", "m", "m", "a", "r", "y">>
K_operationId == <<"o", "p", "e", "r", "a", "t", "i", "o", "n", "I", "d">>
K_tags == <<"t", "a", "g", "s">>
K_parameters == <<"p", "a", "r", "a", "m", "e", "t", "e", "r", "s">>
K_requestBody == <<"r", "e", "q", "u", "e", "s", "t", "B", "o", "d", "y">>
K_responses == <<"r", "e", "s", "p", "o", "n", "s", "e", "s">>
K_security == <<"s", "e", "c", "u", "r", "i", "t", "y">>
K_name == <<"n", "a", "m", "e">>
K_in == <<"i", "n">>
K_schema == <<"s", "c", "h", "e", "m", "a">>
K_content == <<"c", "o", "n", "t", "e", "n", "t">>

\* the default "unknown" of lines 166-167
Unknown == Str(<<"u", "n", "k", "n", "o", "w", "n">>)

LowerCase == <<"a", "b", "c", "d", "e", "f", "g", "h", "i", "j", "k", "l", "m",
               "n", "o", "p", "q", "r", "s", "t", "u", "v", "w", "x", "y", "z">>
UpperCase == <<"A", "B", "C", "D", "E", "F", "G", "H", "I", "J", "K", "L", "M",
               "N", "O", "P", "Q", "R", "S", "T", "U", "V", "W", "X", "Y", "Z">>

\* str.upper() and str.lower(), character by character
UpperChar(c) ==
    IF \E i \in 1..Len(LowerCase) : LowerCase[i] = c
    THEN UpperCase[CHOOSE i \in 1..Len(LowerCase) : LowerCase[i] = c]
    ELSE c
LowerChar(c) ==
    IF \E i \in 1..Len(UpperCase) : UpperCase[i] = c
    THEN LowerCase[CHOOSE i \in 1..Len(UpperCase) : UpperCase[i] = c]
    ELSE c
Upper(chars) == [i \in 1..Len(chars) |-> UpperChar(chars[i])]
Lower(chars) == [i \in 1..Len(chars) |-> LowerChar(chars[i])]

\* d.get(key, default)
GetOr(d, key, default) == IF HasKey(d, key) THEN Get(d, key) ELSE default

\* a line of text at the left margin
Text(tag, val) == Line(0, tag, val, FALSE)
\* "\n": the empty line that ends a block
Blank == Text("", None)
\* "---\n\n"
Separator == Text("---", None)

\* lines 246-262 for an operation whose tags, if any, are iterable
EndpointHead(path, method, endpoint_data) ==
    <<Text("## METHOD path", List(<<Str(Upper(method)), Str(path)>>))>>
    \o (IF HasKey(endpoint_data, K_summary)
        THEN <<Text("Summary", Get(endpoint_data, K_summary))>> ELSE <<>>)
    \o (IF HasKey(endpoint_data, K_description)
        THEN <<Text("Description", Get(endpoint_data, K_description))>> ELSE <<>>)
    \o (IF HasKey(endpoint_data, K_operationId)
        THEN <<Text("Operation ID", Get(endpoint_data, K_operationId))>> ELSE <<>>)
    \o (IF HasKey(endpoint_data, K_tags)
        THEN <<Text("Tags", List(Iterate(Get(endpoint_data, K_tags))))>> ELSE <<>>)
    \o <<Separator>>

\* lines 166-173: the bullet of one parameter and its description
ParameterLines(param) ==
    <<Line(0, "parameter",
           List(<<GetOr(param, K_name, Unknown), GetOr(param, K_in, Unknown)>>),
           Truthy(GetOr(param, K_required, Bool(FALSE))))>>
    \o (IF Truthy(GetOr(param, K_description, Str(<<>>)))
        THEN <<Line(1, "Description", Get(param, K_description), FALSE)>>
        ELSE <<>>)

\* lines 190-197: the head of a request body
RequestBodyHead(request_body) ==
    <<Text("Required", GetOr(request_body, K_required, Bool(FALSE)))>>
    \o (IF HasKey(request_body, K_description)
        THEN <<Text("Description", Get(request_body, K_description))>> ELSE <<>>)
    \o (IF HasKey(request_body, K_content)
        THEN <<Text("Content Types", None)>> ELSE <<>>)

\* lines 214-220: the head of one response
ResponseHead(status_code, response_spec) ==
    <<Text("### Response", Str(status_code))>>
    \o (IF HasKey(response_spec, K_description)
        THEN <<Text("Description", Get(response_spec, K_description))>> ELSE <<>>)
    \o (IF HasKey(response_spec, K_content)
        THEN <<Text("Content", None)>> ELSE <<>>)

\* f"- **`{content_type}`**:\n" (lines 199, 222)
ContentTypeLine(content_type) == Text("content type", Str(content_type))

\* "schema" in content_spec and content_spec["schema"] succeed (lines 200-201,
\* 223-224): a dict, or an iterable that does not hold "schema"
SchemaLookupOk(content_spec) ==
    \/ IsDict(content_spec)
    \/ Iterable(content_spec) /\ ~Contains(content_spec, Str(K_schema))

\* "description" in response_spec, "content" in response_spec and the lookups
\* that follow succeed (lines 216-221): a dict, or an iterable that holds
\* neither word
ResponseLookupOk(response_spec) ==
    \/ IsDict(response_spec)
    \/ /\ Iterable(response_spec)
       /\ ~Contains(response_spec, Str(K_description))
       /\ ~Contains(response_spec, Str(K_content))

\* lines 282-285 for a list of dicts
RECURSIVE SecurityLines(_, _)
SecurityLines(reqs, from) ==
    IF from > Len(reqs) THEN <<>>
    ELSE [k \in 1..Len(reqs[from].e) |->
             Text("security", List(<<Str(reqs[from].e[k][1]),
                                     IF Truthy(reqs[from].e[k][2])
                                     THEN reqs[from].e[k][2]
                                     ELSE Str(<<"N", "o", " ", "s", "c", "o", "p", "e", "s">>)>>))]
         \o SecurityLines(reqs, from + 1)

-----------------------------------------------------------------------------
(* format_endpoint: one action per section.  A section formatter that calls *)
(* format_schema starts the call (seen_refs=None: a fresh set) and goes on  *)
(* when it has returned.                                                    *)

nonEndpointVars == <<openapi_spec, inline_refs, ref_path, resolved, categories,
                     files, gen>>

\* format_endpoint is at section pc and no format_schema call is in progress
AtSection(pc) ==
    /\ ep.pc = pc
    /\ status \in {"idle", "returned"}
    /\ ep.wait <=> status = "returned"

Operation == ep.endpoint_data

\* go on in the same section, or at the start of section pc
Advance(changes) == ep' = [k \in DOMAIN ep |-> IF k \in DOMAIN changes THEN changes[k] ELSE ep[k]]
Goto(pc) == Advance([pc |-> pc, i |-> 0, j |-> 0])

Emit(lines) == markdown' = markdown \o lines

\* format_schema(schema, openapi_spec, indent=indent, inline_refs=inline_refs)
CallSchema(schema, indent) ==
    /\ stack' = <<Call(schema, indent, {})>>
    /\ visited' = {}
    /\ status' = "running"
    /\ UNCHANGED <<ret, exc, resolve_calls>>

\* result += <the string the call returned> + "\n"
TakeResult ==
    /\ Emit(ret \o <<Blank>>)
    /\ status' = "idle"
    /\ UNCHANGED <<stack, visited, ret, exc, resolve_calls>>

NoCall == UNCHANGED schemaVars

EndpointRaise(e) ==
    /\ status' = "raised"
    /\ exc' = e
    /\ UNCHANGED <<stack, visited, ret, resolve_calls, markdown, ep>>

\* lines 246-262
EndpointHeading ==
    /\ AtSection("head")
    /\ UNCHANGED nonEndpointVars
    /\ IF HasKey(Operation, K_tags) /\ ~Iterable(Get(Operation, K_tags))
       THEN EndpointRaise("TypeError")
       ELSE /\ Emit(EndpointHead(ep.path, ep.method, Operation))
            /\ Goto("parameters")
            /\ NoCall

\* lines 264-267 and format_parameters (159-181), one parameter per step
FormatParameters ==
    /\ AtSection("parameters")
    /\ UNCHANGED nonEndpointVars
    /\ LET parameters == Get(Operation, K_parameters)
           param == Iterate(parameters)[ep.i]
       IN  IF ep.wait
           THEN \* line 177 returned; line 179
                /\ TakeResult
                /\ Advance([i |-> ep.i + 1, wait |-> FALSE])
           ELSE IF ~(HasKey(Operation, K_parameters) /\ Truthy(parameters))
           THEN \* line 265
                /\ Goto("requestBody")
                /\ Emit(<<>>)
                /\ NoCall
           ELSE IF ep.i = 0
           THEN \* lines 266, 161-162
                /\ IF ~Truthy(parameters)
                   THEN /\ Emit(<<Text("### Parameters", None),
                                  Text("*No parameters*", None), Blank>>)
                        /\ Goto("requestBody")
                   ELSE /\ Emit(<<Text("### Parameters", None)>>)
                        /\ Advance([i |-> 1])
                /\ NoCall
           ELSE IF ~Iterable(parameters)
           THEN \* line 165: TypeError, not iterable
                EndpointRaise("TypeError")
           ELSE IF ep.i > Len(Iterate(parameters))
           THEN /\ Goto("requestBody")
                /\ Emit(<<>>)
                /\ NoCall
           ELSE IF ~IsDict(param)
           THEN \* line 166: AttributeError, no get
                EndpointRaise("AttributeError")
           ELSE IF HasKey(param, K_schema)
           THEN \* lines 166-177
                /\ Emit(ParameterLines(param) \o <<Line(1, "Schema", None, FALSE)>>)
                /\ CallSchema(Get(param, K_schema), 2)
                /\ Advance([wait |-> TRUE])
           ELSE \* lines 166-173, 179
                /\ Emit(ParameterLines(param) \o <<Blank>>)
                /\ Advance([i |-> ep.i + 1])
                /\ NoCall

\* lines 269-272 and format_request_body (184-204), one content type per step
FormatRequestBody ==
    /\ AtSection("requestBody")
    /\ UNCHANGED nonEndpointVars
    /\ LET request_body == Get(Operation, K_requestBody)
           content == Get(request_body, K_content)
           content_type == content.e[ep.i][1]
           content_spec == content.e[ep.i][2]
       IN  IF ep.wait
           THEN \* line 201 returned; line 202
                /\ TakeResult
                /\ Advance([i |-> ep.i + 1, wait |-> FALSE])
           ELSE IF ~HasKey(Operation, K_requestBody)
           THEN /\ Goto("responses")
                /\ Emit(<<>>)
                /\ NoCall
           ELSE IF ~Truthy(request_body)
           THEN \* lines 271, 186-187
                /\ Emit(<<Text("### Request Body", None),
                          Text("*No request body*", None), Blank>>)
                /\ Goto("responses")
                /\ NoCall
           ELSE IF ~IsDict(request_body)
           THEN \* line 190: AttributeError, no get
                EndpointRaise("AttributeError")
           ELSE IF ep.i = 0
           THEN \* lines 271, 190-197
                /\ Emit(<<Text("### Request Body", None)>> \o RequestBodyHead(request_body))
                /\ IF HasKey(request_body, K_content)
                   THEN Advance([i |-> 1])
                   ELSE Goto("responses")
                /\ NoCall
           ELSE IF ~IsDict(content)
           THEN \* line 198: AttributeError, no items
                EndpointRaise("AttributeError")
           ELSE IF ep.i > Len(content.e)
           THEN /\ Goto("responses")
                /\ Emit(<<>>)
                /\ NoCall
           ELSE IF ~SchemaLookupOk(content_spec)
           THEN \* lines 200-201: TypeError
                EndpointRaise("TypeError")
           ELSE IF IsDict(content_spec) /\ HasKey(content_spec, K_schema)
           THEN /\ Emit(<<ContentTypeLine(content_type)>>)
                /\ CallSchema(Get(content_spec, K_schema), 1)
                /\ Advance([wait |-> TRUE])
           ELSE /\ Emit(<<ContentTypeLine(content_type), Blank>>)
                /\ Advance([i |-> ep.i + 1])
                /\ NoCall

\* lines 274-277 and format_responses (207-229): per response its head, one
\* content type per step, its separator
FormatResponses ==
    /\ AtSection("responses")
    /\ UNCHANGED nonEndpointVars
    /\ LET responses == Get(Operation, K_responses)
           status_code == responses.e[ep.i][1]
           response_spec == responses.e[ep.i][2]
           content == Get(response_spec, K_content)
           content_type == content.e[ep.j][1]
           content_spec == content.e[ep.j][2]
       IN  IF ep.wait
           THEN \* line 224 returned; line 225
                /\ TakeResult
                /\ Advance([j |-> ep.j + 1, wait |-> FALSE])
           ELSE IF ~HasKey(Operation, K_responses)
           THEN /\ Goto("security")
                /\ Emit(<<>>)
                /\ NoCall
           ELSE IF ~Truthy(responses)
           THEN \* lines 276, 209-210
                /\ Emit(<<Text("### Responses", None),
                          Text("*No responses defined*", None), Blank>>)
                /\ Goto("security")
                /\ NoCall
           ELSE IF ~IsDict(responses)
           THEN \* line 213: AttributeError, no items
                EndpointRaise("AttributeError")
           ELSE IF ep.i = 0
           THEN \* line 276
                /\ Emit(<<Text("### Responses", None)>>)
                /\ Advance([i |-> 1, j |-> 0])
                /\ NoCall
           ELSE IF ep.i > Len(responses.e)
           THEN /\ Goto("security")
                /\ Emit(<<>>)
                /\ NoCall
           ELSE IF ~ResponseLookupOk(response_spec)
           THEN \* lines 216-221: TypeError
                EndpointRaise("TypeError")
           ELSE IF ep.j = 0
           THEN \* lines 214-220
                /\ Emit(ResponseHead(status_code, response_spec))
                /\ Advance([j |-> 1])
                /\ NoCall
           ELSE IF ~HasKey(response_spec, K_content)
           THEN \* line 227
                /\ Emit(<<Separator>>)
                /\ Advance([i |-> ep.i + 1, j |-> 0])
                /\ NoCall
           ELSE IF ~IsDict(content)
           THEN \* line 221: AttributeError, no items
                EndpointRaise("AttributeError")
           ELSE IF ep.j > Len(content.e)
           THEN \* line 227
                /\ Emit(<<Separator>>)
                /\ Advance([i |-> ep.i + 1, j |-> 0])
                /\ NoCall
           ELSE IF ~SchemaLookupOk(content_spec)
           THEN \* lines 223-224: TypeError
                EndpointRaise("TypeError")
           ELSE IF IsDict(content_spec) /\ HasKey(content_spec, K_schema)
           THEN /\ Emit(<<ContentTypeLine(content_type)>>)
                /\ CallSchema(Get(content_spec, K_schema), 1)
                /\ Advance([wait |-> TRUE])
           ELSE /\ Emit(<<ContentTypeLine(content_type), Blank>>)
                /\ Advance([j |-> ep.j + 1])
                /\ NoCall

\* lines 279-289
FormatSecurity ==
    /\ AtSection("security")
    /\ UNCHANGED nonEndpointVars
    /\ LET security == Get(Operation, K_security)
           reqs == Iterate(security)
       IN  IF ~HasKey(Operation, K_security)
           THEN /\ Emit(<<Text("\n---", None)>>)
                /\ Goto("done")
                /\ NoCall
           ELSE IF ~Iterable(security)
           THEN \* line 282: TypeError, not iterable
                EndpointRaise("TypeError")
           ELSE IF \E k \in 1..Len(reqs) : ~IsDict(reqs[k])
           THEN \* line 283: AttributeError, no items
                EndpointRaise("AttributeError")
           ELSE /\ Emit(<<Text("### Security", None)>> \o SecurityLines(reqs, 1)
                        \o <<Blank, Text("\n---", None)>>)
                /\ Goto("done")
                /\ NoCall

-----------------------------------------------------------------------------
(* SpecEndpoint: format_endpoint("/a", "get", operation, document, inline_refs) *)

\* "A" is an object that refers to itself and has every structural facet,
\* "B" an array of it
EndpointDocument ==
    Document(
        Dict(<< <<K_type, ObjectTypeName>>,
                <<K_properties, Dict(<< <<K_p, RefTo(PathA)>>, <<K_q, StringType>> >>)>>,
                <<K_required, List(<<Str(K_p)>>)>>,
                <<K_items, StringType>>,
                <<K_allOf, List(<<Num(1)>>)>>,
                <<K_additionalProperties, StringType>> >>),
        ArraySchema(PathA),
        None)

JsonType == <<"j">>
TextType == <<"x">>

ParameterLists ==
    { <<>>,
      << <<K_parameters, List(<<>>)>> >>,
      << <<K_parameters,
           List(<<Dict(<< <<K_name, Str(<<"i", "d">>)>>, <<K_in, Str(<<"p">>)>>,
                          <<K_required, Bool(TRUE)>>, <<K_schema, StringType>> >>)>>)>> >>,
      << <<K_parameters,
           List(<<Dict(<< <<K_name, Str(<<"q">>)>>, <<K_description, Str(<<"d">>)>>,
                          <<K_schema, RefTo(PathA)>> >>),
                  Dict(<<>>)>>)>> >> }

RequestBodies ==
    { <<>>,
      << <<K_requestBody, Dict(<<>>)>> >>,
      << <<K_requestBody,
           Dict(<< <<K_required, Bool(TRUE)>>,
                   <<K_content, Dict(<< <<JsonType, Dict(<< <<K_schema, RefTo(PathB)>> >>)>> >>)>> >>)>> >>,
      << <<K_requestBody,
           Dict(<< <<K_description, Str(<<"d">>)>>,
                   <<K_content, Dict(<< <<JsonType, Dict(<<>>)>>,
                                        <<TextType, Dict(<< <<K_schema, Str(<<"x">>)>> >>)>> >>)>> >>)>> >> }

ResponseMaps ==
    { <<>>,
      << <<K_responses, Dict(<<>>)>> >>,
      << <<K_responses,
           Dict(<< <<<<"4", "0", "4">>, Dict(<< <<K_description, Str(<<"n">>)>> >>)>>,
                   <<<<"2", "0", "0">>,
                     Dict(<< <<K_description, Str(<<"o">>)>>,
                             <<K_content,
                               Dict(<< <<JsonType, Dict(<< <<K_schema, RefTo(PathA)>> >>)>>,
                                       <<TextType, Dict(<<>>)>> >>)>> >>)>> >>)>> >> }

SecurityLists ==
    { <<>>,
      << <<K_security,
           List(<<Dict(<< <<<<"k">>, List(<<>>)>>,
                          <<<<"o">>, List(<<Str(<<"r">>)>>)>> >>)>>)>> >> }

Summaries ==
    { <<>>,
      << <<K_summary, Str(<<"s">>)>>, <<K_operationId, Str(<<"o">>)>>,
         <<K_tags, List(<<Str(<<"T">>)>>)>> >> }

Operations ==
    {Dict(s \o p \o b \o r \o c) :
        s \in Summaries, p \in ParameterLists, b \in RequestBodies,
        r \in ResponseMaps, c \in SecurityLists}

InitEndpoint ==
    /\ openapi_spec = EndpointDocument
    /\ inline_refs \in BOOLEAN
    /\ ep \in {[pc |-> "head", i |-> 0, j |-> 0, wait |-> FALSE,
                path |-> <<"/", "a">>, method |-> <<"g", "e", "t">>,
                endpoint_data |-> op] : op \in Operations}
    /\ markdown = <<>>
    /\ stack = <<>>
    /\ visited = {}
    /\ ret = <<>>
    /\ status = "idle"
    /\ exc = ""
    /\ resolve_calls = 0
    /\ IdleResolve
    /\ IdleCategory

NextEndpoint ==
    \/ EndpointHeading
    \/ FormatParameters
    \/ FormatRequestBody
    \/ FormatResponses
    \/ FormatSecurity
    \/ Scalar
    \/ Ref
    \/ RefReturn
    \/ HeadFacets
    \/ Properties
    \/ Items
    \/ Compose
    \/ AdditionalProperties
    \/ TailFacets

SpecEndpoint == InitEndpoint /\ [][NextEndpoint]_vars

-----------------------------------------------------------------------------
(* C7: format_endpoint emits the Parameters, Request Body and Responses     *)
(* sections in that order, each if and only if its key is present in the    *)
(* operation; a present but empty parameters list gets the Parameters       *)
(* section with the "no parameters" marker.                                 *)

SectionTags == {"### Parameters", "### Request Body", "### Responses"}

\* the section headers of a string, in the order they occur
RECURSIVE Sections(_)
Sections(lines) ==
    IF lines = <<>> THEN <<>>
    ELSE (IF lines[1].tag \in SectionTags THEN <<lines[1].tag>> ELSE <<>>)
         \o Sections(SubSeq(lines, 2, Len(lines)))

\* the headers of the keys the operation has, in the fixed order
ExpectedSections(op) ==
    (IF HasKey(op, K_parameters) THEN <<"### Parameters">> ELSE <<>>)
    \o (IF HasKey(op, K_requestBody) THEN <<"### Request Body">> ELSE <<>>)
    \o (IF HasKey(op, K_responses) THEN <<"### Responses">> ELSE <<>>)

\* the line that follows the Parameters header is the "no parameters" marker
NoParametersMarker(lines) ==
    \E k \in 1..(Len(lines) - 1) :
        lines[k].tag = "### Parameters" /\ lines[k + 1].tag = "*No parameters*"

C7_Sections ==
    ep.pc = "done" =>
        /\ Sections(markdown) = ExpectedSections(Operation)
        /\ (HasKey(Operation, K_parameters) /\ Get(Operation, K_parameters) = List(<<>>))
               => NoParametersMarker(markdown)

-----------------------------------------------------------------------------
(* generate_category_docs *)

K_paths == <<"p", "a", "t", "h", "s">>
K_info == <<"i", "n", "f", "o">>
K_version == <<"v", "e", "r", "s", "i", "o", "n">>

\* the list literal of line 311
HttpMethods ==
    { <<"g", "e", "t">>, <<"p", "o", "s", "t">>, <<"p", "u", "t">>,
      <<"d", "e", "l", "e", "t", "e">>, <<"p", "a", "t", "c", "h">>,
      <<"o", "p", "t", "i", "o", "n", "s">>, <<"h", "e", "a", "d">> }

\* method.lower() in [...] (line 311)
Recognised(method) == Lower(method) \in HttpMethods

\* the default of line 314
Uncategorized ==
    List(<<Str(<<"U", "n", "c", "a", "t", "e", "g", "o", "r", "i", "z", "e", "d">>)>>)

\* endpoint_data.get("tags", ["Uncategorized"]) (line 314)
TagsOf(endpoint_data) == GetOr(endpoint_data, K_tags, Uncategorized)

\* the (path, method, endpoint_data) of the two loops of lines 309-310, in the
\* order the loops meet them
RECURSIVE PairsFrom(_, _)
PairsFrom(paths, p) ==
    IF p > Len(paths.e) THEN <<>>
    ELSE LET path == paths.e[p][1]
             path_data == paths.e[p][2]
         IN  [m \in 1..Len(path_data.e) |->
                 <<path, path_data.e[m][1], path_data.e[m][2]>>]
             \o PairsFrom(paths, p + 1)

Pairs(spec) == PairsFrom(GetOr(spec, K_paths, Dict(<<>>)), 1)

\* lines 317-319: categories[tag].append(record), the list made when the tag
\* is new
AppendTo(cats, tag, record) ==
    IF \E k \in 1..Len(cats) : PyEq(cats[k][1], tag)
    THEN LET k == CHOOSE k \in 1..Len(cats) : PyEq(cats[k][1], tag)
         IN  [cats EXCEPT ![k] = <<cats[k][1], Append(cats[k][2], record)>>]
    ELSE Append(cats, <<tag, <<record>>>>)

\* the loop of lines 316-319 from tag number from on
RECURSIVE AddTags(_, _, _, _)
AddTags(cats, tags, from, record) ==
    IF from > Len(tags) THEN cats
    ELSE AddTags(AppendTo(cats, tags[from], record), tags, from + 1, record)

\* the code points of the characters of the tags
CharOrder == <<" ">> \o UpperCase \o <<"_">> \o LowerCase
Code(c) == CHOOSE i \in 1..Len(CharOrder) : CharOrder[i] = c

\* a < b for two strs
RECURSIVE StrLess(_, _)
StrLess(a, b) ==
    IF b = <<>> THEN FALSE
    ELSE IF a = <<>> THEN TRUE
    ELSE IF a[1] = b[1] THEN StrLess(Tail(a), Tail(b))
    ELSE Code(a[1]) < Code(b[1])

\* sorted(categories.items()) for str keys: no two keys are equal, so the
\* lists are never compared
RECURSIVE Sorted(_)
Sorted(cats) ==
    IF cats = <<>> THEN <<>>
    ELSE LET k == CHOOSE k \in 1..Len(cats) :
                      \A l \in 1..Len(cats) : l # k => StrLess(cats[k][1].s, cats[l][1].s)
         IN  <<cats[k]>>
             \o Sorted([l \in 1..(Len(cats) - 1) |-> IF l < k THEN cats[l] ELSE cats[l + 1]])

\* text.replace(old, new) for one-character old
ReplaceChar(chars, old, new) ==
    [i \in 1..Len(chars) |-> IF chars[i] = old THEN new ELSE chars[i]]

\* text.replace(old, '') for one-character old
RECURSIVE RemoveChar(_, _)
RemoveChar(chars, old) ==
    IF chars = <<>> THEN <<>>
    ELSE (IF chars[1] = old THEN <<>> ELSE <<chars[1]>>) \o RemoveChar(Tail(chars), old)

\* f"{category.lower().replace(' ', '_')}.md" (lines 326, 397)
FileName(category) == ReplaceChar(Lower(category.s), " ", "_") \o <<".", "m", "d">>

IndexName == <<"i", "n", "d", "e", "x", ".", "m", "d">>
SingleName == <<"a", "p", "i", "_", "d", "o", "c", "u", "m", "e", "n", "t", "a", "t",
                "i", "o", "n", ".", "m", "d">>

\* the anchor of lines 363 and 442
Anchor(method, path) ==
    Lower(method) \o <<"-">>
    \o ReplaceChar(RemoveChar(RemoveChar(RemoveChar(path, "/"), "{"), "}"), "_", "-")

\* the entry of an endpoint in a table of contents (lines 361-364, 440-443)
TocLine(i, record) ==
    Text("toc", List(<<Num(i), Str(Upper(record[2])), Str(record[1]),
                       Str(Anchor(record[2], record[1])),
                       GetOr(record[3], K_summary, Str(record[1]))>>))

\* format_endpoint of an operation that has none of the keys parameters,
\* requestBody, responses and security: its heading and its closing rule
format_endpoint(path, method, endpoint_data) ==
    EndpointHead(path, method, endpoint_data) \o <<Text("\n---", None)>>

RECURSIVE EndpointBodies(_, _)
EndpointBodies(endpoints, from) ==
    IF from > Len(endpoints) THEN <<>>
    ELSE format_endpoint(endpoints[from][1], endpoints[from][2], endpoints[from][3])
         \o EndpointBodies(endpoints, from + 1)

\* the defaults 'N/A' and 'API Documentation'
NotAvailable == Str(<<"N", "/", "A">>)
ApiDocumentation == Str(<<"A", "P", "I">>)

\* the info block of a category file (lines 335-340); the index and the single
\* file give the title another default (lines 376-381, 415-420)
InfoLines(spec, default) ==
    IF ~HasKey(spec, K_info) THEN <<>>
    ELSE LET info == Get(spec, K_info)
         IN  <<Text("title", GetOr(info, K_title, default)),
               Text("version", GetOr(info, K_version, NotAvailable))>>
             \o (IF HasKey(info, K_description)
                 THEN <<Text("description", Get(info, K_description))>> ELSE <<>>)

\* what lines 329-369 write to the file of a category
CategoryFile(spec, category, endpoints) ==
    <<Text("# category API Documentation", category)>>
    \o InfoLines(spec, NotAvailable)
    \o <<Separator, Text("## Table of Contents", None)>>
    \o [i \in 1..Len(endpoints) |-> TocLine(i, endpoints[i])]
    \o <<Text("\n---", None)>>
    \o EndpointBodies(endpoints, 1)

\* what lines 373-402 write to index.md
IndexFile(spec, cats) ==
    <<Text("# API Documentation Index", None)>>
    \o InfoLines(spec, ApiDocumentation)
    \o <<Text("## Categories", None)>>
    \o [k \in 1..Len(cats) |->
           Text("category", List(<<Sorted(cats)[k][1],
                                   Str(FileName(Sorted(cats)[k][1])),
                                   Num(Len(Sorted(cats)[k][2]))>>))]
    \o <<Text("\n---", None)>>

\* the table of contents and the bodies of the single file (lines 438-454)
RECURSIVE SingleToc(_, _)
SingleToc(sorted, k) ==
    IF k > Len(sorted) THEN <<>>
    ELSE <<Text("### category", sorted[k][1])>>
         \o [i \in 1..Len(sorted[k][2]) |-> TocLine(0, sorted[k][2][i])]
         \o <<Blank>> \o SingleToc(sorted, k + 1)

RECURSIVE SingleBodies(_, _)
SingleBodies(sorted, k) ==
    IF k > Len(sorted) THEN <<>>
    ELSE <<Text("# category", sorted[k][1])>>
         \o EndpointBodies(sorted[k][2], 1) \o SingleBodies(sorted, k + 1)

SingleFile(spec, cats) ==
    <<Text("# Complete API Documentation", None)>>
    \o InfoLines(spec, ApiDocumentation)
    \o <<Separator, Text("## Table of Contents", None)>>
    \o SingleToc(Sorted(cats), 1)
    \o <<Separator>>
    \o SingleBodies(Sorted(cats), 1)

\* open(filepath, 'w') and the writes up to the close: the file holds the new
\* content, whatever it held
WriteFile(fs, name, content) ==
    IF \E k \in 1..Len(fs) : fs[k][1] = name
    THEN [fs EXCEPT ![CHOOSE k \in 1..Len(fs) : fs[k][1] = name] = <<name, content>>]
    ELSE Append(fs, <<name, content>>)

-----------------------------------------------------------------------------
(* generate_category_docs, one step per (path, method) pair and per file.   *)
(* The documents are those whose path items are dicts and whose operations  *)
(* carry lists of str tags.                                                 *)

nonCategoryVars == <<openapi_spec, inline_refs, stack, visited, ret, status, exc,
                     resolve_calls, ref_path, resolved, ep, markdown>>

\* lines 309-321 for one (path, method) pair
Group ==
    /\ gen.pc = "group"
    /\ gen.i <= Len(Pairs(openapi_spec))
    /\ UNCHANGED <<nonCategoryVars, files>>
    /\ LET record == Pairs(openapi_spec)[gen.i]
           method == record[2]
           endpoint_data == record[3]
           last == gen.i = Len(Pairs(openapi_spec))
           after == IF ~last THEN "group"
                    ELSE IF gen.chunk_by_category THEN "write" ELSE "single"
       IN  IF ~Recognised(method)
           THEN \* line 312: continue
                /\ categories' = categories
                /\ gen' = [gen EXCEPT !.pc = after, !.i = @ + 1]
           ELSE IF ~IsDict(endpoint_data)
           THEN \* line 314: AttributeError, no get
                /\ categories' = categories
                /\ gen' = [gen EXCEPT !.pc = "raised"]
           ELSE IF \/ ~Iterable(TagsOf(endpoint_data))
                   \/ \E k \in 1..Len(Iterate(TagsOf(endpoint_data))) :
                          ~Hashable(Iterate(TagsOf(endpoint_data))[k])
           THEN \* lines 316-317: TypeError, not iterable or unhashable
                /\ categories' = categories
                /\ gen' = [gen EXCEPT !.pc = "raised"]
           ELSE /\ categories' = AddTags(categories, Iterate(TagsOf(endpoint_data)), 1, record)
                /\ gen' = [gen EXCEPT !.pc = after, !.i = @ + 1]

\* lines 325-369: the file of the next category in sorted order
WriteCategory ==
    /\ gen.pc = "write"
    /\ gen.k <= Len(categories)
    /\ UNCHANGED <<nonCategoryVars, categories>>
    /\ LET category == Sorted(categories)[gen.k][1]
           endpoints == Sorted(categories)[gen.k][2]
       IN  files' = WriteFile(files, FileName(category),
                              CategoryFile(openapi_spec, category, endpoints))
    /\ gen' = [gen EXCEPT !.k = @ + 1]

\* lines 372-402: index.md, after the last category
WriteIndex ==
    /\ gen.pc = "write"
    /\ gen.k > Len(categories)
    /\ UNCHANGED <<nonCategoryVars, categories>>
    /\ files' = WriteFile(files, IndexName, IndexFile(openapi_spec, categories))
    /\ gen' = [gen EXCEPT !.pc = "done"]

\* lines 406-458: the single file
WriteSingle ==
    /\ gen.pc = "single"
    /\ UNCHANGED <<nonCategoryVars, categories>>
    /\ files' = WriteFile(files, SingleName, SingleFile(openapi_spec, categories))
    /\ gen' = [gen EXCEPT !.pc = "done"]

-----------------------------------------------------------------------------
(* SpecCategory: generate_category_docs(document, "docs", chunk, inline)    *)

PathSlashA == <<"/", "a">>
PathSlashB == <<"/", "b", "_", "{", "c", "}">>
M_get == <<"g", "e", "t">>
M_POST == <<"P", "O", "S", "T">>
M_trace == <<"t", "r", "a", "c", "e">>

TagAb == Str(<<"A", " ", "b">>)
Tag_ab == Str(<<"a", "_", "b">>)
TagIndex == Str(<<"I", "n", "d", "e", "x">>)
TagZ == Str(<<"Z">>)

\* no tags key, no tag, one tag, two tags, one tag twice
TagLists ==
    { <<>>,
      << <<K_tags, List(<<>>)>> >>,
      << <<K_tags, List(<<TagAb>>)>> >>,
      << <<K_tags, List(<<Tag_ab, TagZ>>)>> >>,
      << <<K_tags, List(<<TagZ, TagZ>>)>> >>,
      << <<K_tags, List(<<TagIndex>>)>> >> }

InfoBlocks ==
    { <<>>,
      << <<K_info, Dict(<< <<K_title, Str(<<"t">>)>>, <<K_description, Str(<<"d">>)>> >>)>> >> }

\* two paths: a get, a trace and an upper-case POST on the first, a
\* path-level parameters list and a get on the second
CategoryDocuments ==
    {Dict(info \o
          << <<K_paths,
               Dict(<< <<PathSlashA,
                         Dict(<< <<M_get, Dict(t1 \o << <<K_summary, Str(<<"s">>)>> >>)>>,
                                 <<M_trace, Dict(<< <<K_tags, List(<<TagAb>>)>> >>)>>,
                                 <<M_POST, Dict(t2)>> >>)>>,
                       <<PathSlashB,
                         Dict(<< <<K_parameters, List(<<>>)>>,
                                 <<M_get, Dict(t3)>> >>)>> >>)>> >>) :
        info \in InfoBlocks, t1 \in TagLists, t2 \in TagLists, t3 \in TagLists}

InitCategory ==
    /\ openapi_spec \in CategoryDocuments
    /\ inline_refs \in BOOLEAN
    /\ categories = <<>>
    /\ files = <<>>
    /\ gen \in {[pc |-> "group", chunk_by_category |-> c, i |-> 1, k |-> 1] : c \in BOOLEAN}
    /\ IdleSchema
    /\ IdleResolve
    /\ IdleEndpoint

NextCategory ==
    \/ Group
    \/ WriteCategory
    \/ WriteIndex
    \/ WriteSingle

SpecCategory == InitCategory /\ [][NextCategory]_vars

-----------------------------------------------------------------------------
(* C9: every recognised (path, method) pair is appended to the list of tag  *)
(* t once per occurrence of t in the operation's tags, to "Uncategorized"   *)
(* once when it has no tags key, pairs of other methods to no list, the     *)
(* lists keep the order of the document; and so the endpoint count of each  *)
(* tag equals the number of operations that carry the tag.                  *)

\* the grouping loop is over
Grouped == gen.pc \in {"write", "single", "done"}

\* how often tag occurs in tags from position from on
RECURSIVE Occurrences(_, _, _)
Occurrences(tag, tags, from) ==
    IF from > Len(tags) THEN 0
    ELSE (IF tags[from] = tag THEN 1 ELSE 0) + Occurrences(tag, tags, from + 1)

\* the list a tag is due: the recognised pairs in document order, each once
\* per occurrence of the tag
RECURSIVE Due(_, _, _)
Due(tag, pairs, from) ==
    IF from > Len(pairs) THEN <<>>
    ELSE (IF Recognised(pairs[from][2])
          THEN [n \in 1..Occurrences(tag, Iterate(TagsOf(pairs[from][3])), 1) |-> pairs[from]]
          ELSE <<>>)
         \o Due(tag, pairs, from + 1)

AllTags ==
    {TagAb, Tag_ab, TagIndex, TagZ, Iterate(Uncategorized)[1]}

ListOf(tag) ==
    IF \E k \in 1..Len(categories) : categories[k][1] = tag
    THEN categories[CHOOSE k \in 1..Len(categories) : categories[k][1] = tag][2]
    ELSE <<>>

\* the operations that carry a tag
Carriers(tag) ==
    {i \in 1..Len(Pairs(openapi_spec)) :
        /\ Recognised(Pairs(openapi_spec)[i][2])
        /\ Contains(TagsOf(Pairs(openapi_spec)[i][3]), tag)}

\* the count that index.md gives a tag
IndexCount(tag) ==
    LET index == CHOOSE k \in 1..Len(files) : files[k][1] = IndexName
        lines == files[index][2]
        line == CHOOSE l \in 1..Len(lines) :
                    lines[l].tag = "category" /\ Iterate(lines[l].val)[1] = tag
    IN  Iterate(lines[line].val)[3].n

C9_PerOccurrence ==
    Grouped => \A tag \in AllTags :
                   /\ ListOf(tag) = Due(tag, Pairs(openapi_spec), 1)
                   /\ (\E k \in 1..Len(categories) : categories[k][1] = tag)
                          <=> Due(tag, Pairs(openapi_spec), 1) # <<>>

C9_Count ==
    (gen.pc = "done" /\ gen.chunk_by_category) =>
        \A k \in 1..Len(categories) :
            IndexCount(categories[k][1]) = Cardinality(Carriers(categories[k][1]))

C9_Grouping == C9_PerOccurrence /\ C9_Count

-----------------------------------------------------------------------------
(* C10: in category mode the file names of two distinct tags differ from    *)
(* each other and from index.md, so no write replaces what the write of     *)
(* another tag, or of the index, has put into a file.                       *)

C10_DistinctNames ==
    \A k, l \in 1..Len(categories) :
        /\ k # l => FileName(categories[k][1]) # FileName(categories[l][1])
        /\ FileName(categories[k][1]) # IndexName

\* a step leaves every file that exists as it is
C10_NoOverwrite ==
    \A k \in 1..Len(files) : files'[k] = files[k]

C10_DisjointFiles == []C10_DistinctNames /\ [][C10_NoOverwrite]_vars

-----------------------------------------------------------------------------
(* C11: in a run started from an empty visited set, the visited set a call  *)
(* of format_schema receives is exactly the set of reference paths of the   *)
(* $ref nodes entered on the way from the root call to it; what an earlier  *)
(* sibling (property, option, items, additionalProperties) entered is not   *)
(* in it, so a $ref that no enclosing call is expanding is resolved and     *)
(* expanded, never answered with the circular marker.                       *)

\* the reference paths of the $ref nodes entered by the callers of call k
Entered(k) == {RefPathOf(stack[j]) : j \in {j \in Expansions : j < k}}

\* a call that expands a $ref has added its own path to the set it received
C11_VisitedIsPath ==
    \A k \in 1..Len(stack) :
        stack[k].seen_refs =
            Entered(k) \cup (IF k \in Expansions THEN {RefPathOf(stack[k])} ELSE {})

C11_SiblingExpanded ==
    (inline_refs /\ AtRefPath /\ ~ReEntry)
    => /\ resolve_calls' = resolve_calls + 1
       /\ Truthy(resolve_ref(RefPathOf(Top).s, openapi_spec))
              => /\ Len(stack') = Len(stack) + 1
                 /\ stack'[Len(stack')].seen_refs = Entered(Len(stack)) \cup {RefPathOf(Top)}

C11_VisitedInvariant == []C11_VisitedIsPath /\ [][C11_SiblingExpanded]_vars

\* the second of two sibling properties that reference "A" is being expanded
\* after the first one was: the root call holds the first expansion, the
\* call below the second $ref received just {"#/s/A"}
C11_Witness ==
    /\ inline_refs
    /\ status = "running"
    /\ Len(stack) = 3
    /\ stack[1].schema = SiblingSchema(PathA)
    /\ \E l \in 1..Len(stack[1].result) : stack[1].result[l].tag = "Resolved Definition"
    /\ \A l \in 1..Len(stack[1].result) : stack[1].result[l].tag # "circular reference"
    /\ stack[2].pc = "ref_return"
    /\ RefPathOf(stack[2]) = Str(PathA)
    /\ stack[3].seen_refs = {Str(PathA)}

-----------------------------------------------------------------------------
(* C12: format_schema renders the Additional Properties block if and only   *)
(* if the additionalProperties value of the node is a mapping; for the      *)
(* booleans and for every other scalar (null, a number, a string) no block  *)
(* is emitted.                                                              *)

\* the innermost call is at the additionalProperties test of line 135
AtAdditional == Running /\ Top.pc = "additional"

\* the step appends the block header to the result of the call and calls
\* format_schema on the value
BlockEmitted ==
    /\ Len(stack') = Len(stack) + 1
    /\ stack'[Len(stack)].result =
           Top.result \o <<Line(Top.indent, "Additional Properties", None, FALSE)>>
    /\ stack'[Len(stack')].schema = Get(Top.schema, K_additionalProperties)

C12_Block ==
    AtAdditional =>
        (BlockEmitted <=> /\ HasKey(Top.schema, K_additionalProperties)
                          /\ IsDict(Get(Top.schema, K_additionalProperties)))

C12_OnlyMappings == [][C12_Block]_vars

-----------------------------------------------------------------------------
(* C13: the visited set is passed by value: no step of a call of            *)
(* format_schema changes the set its caller supplied, whatever the node, a  *)
(* $ref that is not yet in the set included.                                *)

\* the set object the caller of the top-level call passed keeps its value
C13_CallerSetKept == visited' = visited

C13_VisitedByValue == [][C13_CallerSetKept]_vars

=============================================================================
